---- MODULE Spec2Model ----
(***************************************************************************)
(* Model of src/main.py: the GitHub repository update tracker.             *)
(*                                                                         *)
(* A run of main() loads the configuration and the watermark file, visits  *)
(* every configured repository in order (fetch commits, summarize, record  *)
(* the new watermark in memory), then creates one issue and saves the      *)
(* watermark file when at least one summary was collected.                 *)
(*                                                                         *)
(* Upstream histories are append-only.  The commits of a repository are    *)
(* numbered 1, 2, ... in chronological order and the number is the sha.    *)
(* The value None of Python (and every other falsy sha) is NoSha.          *)
(***************************************************************************)
EXTENDS Integers, Sequences, FiniteSets, TLC

\* ------------------------------------------------------------- bounds
MaxCommits == 4     \* commits one upstream repository can hold
InitCommits == 1    \* commits an upstream repository can hold at the start
PageSize == 3       \* commits per page of the commit-listing endpoint
MaxRuns == 2        \* runs of main() in one behaviour

Repos == {"org/a", "org/b"}

NoSha == 0

\* ------------------------------------------------------------- helpers
RECURSIVE SeqsUpTo(_, _)
SeqsUpTo(S, n) ==
    IF n = 0 THEN {<<>>}
    ELSE LET shorter == SeqsUpTo(S, n - 1)
         IN  shorter \cup {Append(s, x) : s \in {t \in shorter : Len(t) = n - 1}, x \in S}

\* list(reversed(xs)), line 71
Reversed(xs) == [k \in 1..Len(xs) |-> xs[Len(xs) + 1 - k]]

\* ------------------------------------------------------------- upstream feed
\* The commit object the listing endpoint returns for the n-th commit:
\* commit['sha'] and commit['commit']['message'].
MessageTable == <<"m1", "m2", "m3", "m4", "m5", "m6", "m7", "m8">>
Commit(n) == [sha |-> n, message |-> MessageTable[n]]

\* One page of the listing endpoint for a history of n commits: newest first,
\* at most per_page commits.
Page(n, per_page) ==
    LET len == IF n < per_page THEN n ELSE per_page
    IN  [k \in 1..len |-> Commit(n + 1 - k)]

Shas(cs) == {cs[k].sha : k \in 1..Len(cs)}

\* ------------------------------------------------------------- get_new_commits
\* The loop of lines 66-70: collect the commits of the page that come before
\* the first commit whose sha is last_commit_sha.
RECURSIVE CollectUntil(_, _)
CollectUntil(all_commits, last_commit_sha) ==
    IF all_commits = <<>> THEN <<>>
    ELSE IF Head(all_commits).sha = last_commit_sha THEN <<>>
    ELSE <<Head(all_commits)>> \o CollectUntil(Tail(all_commits), last_commit_sha)

\* `if last_commit_sha:` (line 62): None and the empty string are falsy
Truthy(last_commit_sha) == last_commit_sha # NoSha

\* per_page of the first-run request (line 73)
FirstRunPerPage == 1

\* The request of get_new_commits without the per_page parameter of line 73
RequestedPage_default(n, last_commit_sha) == Page(n, PageSize)

\* per_page = 1 on every request
RequestedPage_one(n, last_commit_sha) == Page(n, FirstRunPerPage)

\* The page the request of get_new_commits asks for: the default page with a
\* watermark (line 63), per_page = 1 without one (lines 73-74).
RequestedPage(n, last_commit_sha) ==
    IF Truthy(last_commit_sha) THEN Page(n, PageSize) ELSE Page(n, FirstRunPerPage)

\* get_new_commits without the reversal of line 71
get_new_commits_unreversed(page, last_commit_sha) ==
    IF Truthy(last_commit_sha) THEN CollectUntil(page, last_commit_sha) ELSE page

\* get_new_commits on a successful response `page` (lines 62-76)
get_new_commits(page, last_commit_sha) ==
    IF Truthy(last_commit_sha)
    THEN Reversed(CollectUntil(page, last_commit_sha))
    ELSE page

\* ------------------------------------------------------------- summarize_commits_with_llm
\* Text is a sequence of one-character strings.
Whitespace == {" ", "\n"}

RECURSIVE LStrip(_)
LStrip(text) ==
    IF text # <<>> /\ Head(text) \in Whitespace THEN LStrip(Tail(text)) ELSE text

\* str.strip() (line 126)
Strip(text) == Reversed(LStrip(Reversed(LStrip(text))))

\* The values ARK_API_KEY can have (line 12); `not ARK_API_KEY` (line 80)
ArkKeys == {"None", "sk"}
KeyMissing(key) == key = "None"

\* The value of the "error" key of a response body.
ErrAbsent == [tag |-> "absent", message |-> <<>>]
ErrNull == [tag |-> "null", message |-> <<>>]
ErrString == [tag |-> "string", message |-> <<"q", "u", "o", "t", "a">>]
ErrObject == [tag |-> "object", message |-> <<"b", "l", "o", "c", "k", "e", "d">>]
ErrObjectNoMessage == [tag |-> "object_without_message", message |-> <<>>]

TextItem(text) == [type |-> "output_text", text |-> text]
RefusalItem == [type |-> "refusal", text |-> <<"n", "o">>]
MessageItem(content) == [type |-> "message", role |-> "assistant", content |-> content]
ReasoningItem == [type |-> "reasoning", role |-> "assistant", content |-> <<TextItem(<<"t">>)>>]

Body(output, error) == [status |-> "ok", output |-> output, error |-> error]

\* The outcomes of the POST to the summarization endpoint this model draws
\* from: a transport failure (raise of lines 115-116) or a 200 response body.
ArkResponses ==
    { [status |-> "RequestException", output |-> <<>>, error |-> ErrAbsent],
      Body(<<ReasoningItem, MessageItem(<<RefusalItem>>),
             MessageItem(<<RefusalItem, TextItem(<<" ", "f", "i", "x", "\n">>), TextItem(<<"a">>)>>)>>,
           ErrNull),
      Body(<<MessageItem(<<RefusalItem>>)>>, ErrAbsent),
      Body(<<>>, ErrObject),
      Body(<<>>, ErrObjectNoMessage),
      Body(<<ReasoningItem>>, ErrNull),
      Body(<<>>, ErrString) }

\* The inner loop of lines 123-126: the texts of the output_text items.
RECURSIVE OutputTexts(_)
OutputTexts(content_list) ==
    IF content_list = <<>> THEN <<>>
    ELSE (IF Head(content_list).type = "output_text" THEN <<Head(content_list).text>> ELSE <<>>)
         \o OutputTexts(Tail(content_list))

\* The outer loop of lines 120-126: the texts the scan can return, in scan order.
RECURSIVE FoundTexts(_)
FoundTexts(output_list) ==
    IF output_list = <<>> THEN <<>>
    ELSE (IF Head(output_list).type = "message" /\ Head(output_list).role = "assistant"
          THEN OutputTexts(Head(output_list).content) ELSE <<>>)
         \o FoundTexts(Tail(output_list))

Returned(kind, text) == [exc |-> "none", kind |-> kind, text |-> text]
Raised(exc) == [exc |-> exc, kind |-> "raised", text |-> <<>>]

DefaultMessage == <<"n", "o", "t", " ", "f", "o", "u", "n", "d">>
NoneText == <<"N", "o", "n", "e">>

\* Lines 130-131: error_info = response_data.get('error', {...});
\* error_info.get('message').  None and str have no attribute get.
ExtractFallback(error) ==
    CASE error.tag = "absent" -> Returned("extract_fallback", DefaultMessage)
      [] error.tag = "object" -> Returned("extract_fallback", error.message)
      [] error.tag = "object_without_message" -> Returned("extract_fallback", NoneText)
      [] OTHER -> Raised("AttributeError")

\* summarize_commits_with_llm without the early return of lines 80-82
SendsRequest_always(key) == TRUE

\* Whether summarize_commits_with_llm sends the POST of line 115
SendsRequest(key) == ~KeyMissing(key)

\* summarize_commits_with_llm (lines 78-137), given the outcome `resp` of the
\* request when one is sent.
summarize_commits_with_llm(key, resp) ==
    IF ~SendsRequest(key) THEN Returned("key_missing", <<>>)
    ELSE IF resp.status = "RequestException" THEN Returned("transport_fallback", <<>>)
    ELSE IF FoundTexts(resp.output) # <<>>
         THEN Returned("summary", Strip(Head(FoundTexts(resp.output))))
    ELSE ExtractFallback(resp.error)

\* ------------------------------------------------------------- state
VARIABLES
    ARK_API_KEY,        \* the summarization credential (line 12)
    GITHUB_REPOSITORY,  \* os.environ.get('GITHUB_REPOSITORY') (line 149)
    config,             \* the 'repositories' list of config.json
    upstream,           \* upstream[r]: number of commits of repository r
    last_commits_file,  \* the content of last_commits.json: repo -> sha or NoSha
    file_status,        \* last_commits.json is "json", "absent" or "unparsable"
    pc,                 \* position of main(): "main", "loop", "report", "done", "crashed"
    run,                \* number of the current run
    repositories,       \* local of main (line 146)
    last_commits,       \* local of main (line 145)
    i,                  \* index of the for loop of line 161
    all_summaries,      \* local of main (line 159)
    log,                \* one record per loop iteration of this run
    ark_requests,       \* POSTs to ARK_API_URL of this run
    issues,             \* issue-creation POSTs of this run
    saves,              \* save_json calls of this run
    loads,              \* load_json(LAST_COMMITS_FILE) calls of this run
    summarize_calls,    \* calls of summarize_commits_with_llm of this run
    github_output,      \* key-value lines this run wrote to the output channel
    summarized,         \* summarized[r]: commits of r handed to summarization in earlier runs
    seed,               \* seed[r]: the first watermark persisted for r, NoSha before
    prev                \* what the previous run saw and did, per repository

vars == <<ARK_API_KEY, GITHUB_REPOSITORY, config, upstream, last_commits_file, file_status, pc, run,
          repositories, last_commits, i, all_summaries, log, ark_requests, issues, saves,
          loads, summarize_calls, github_output, summarized, seed, prev>>

across_runs == <<summarized, seed, prev>>

env == <<ARK_API_KEY, GITHUB_REPOSITORY, config>>
locals == <<repositories, last_commits, i, all_summaries>>
history == <<log, ark_requests, issues, saves, summarize_calls, github_output>>

\* get_beijing_time (lines 32-35): the date is the day of the run, the time
\* of day advances with the loop.
get_beijing_time == [date |-> run, time |-> i]

EmptyMapping == [r \in Repos |-> NoSha]

FileStatuses == {"json", "absent", "unparsable"}

\* load_json without the try of lines 22-25
LoadRaises_unparsable(status) == status = "unparsable"

\* Whether load_json raises: a missing file is tested for (line 19) and the
\* JSONDecodeError of an unparsable one is caught (line 24)
LoadRaises(status) == FALSE

\* load_json(LAST_COMMITS_FILE) (lines 17-25) and last_commits.get(repo): {}
\* for a missing or unparsable file; a repository absent from the mapping
\* reads as None (line 163).  For an unparsable file `file` is the mapping
\* its garbled text once held.
load_json(status, file) == IF status = "json" THEN file ELSE EmptyMapping

\* ------------------------------------------------------------- one loop iteration
FetchOutcomes == {"ok", "HTTPError", "ConnectionError"}

NoResp == [status |-> "none", output |-> <<>>, error |-> ErrAbsent]
NotCalled == [exc |-> "none", kind |-> "not_called", text |-> <<>>]

\* The loop with the except clause of lines 183-184 alone
Caught_http_only(exc) == exc = "HTTPError"

\* The except clauses of lines 183-186: HTTPError, then every Exception.
Caught(exc) == exc \in {"HTTPError", "ConnectionError", "AttributeError"}

\* latest_commit_sha = new_commits[-1]['sha'] (line 179)
\* new_commits[0] in place of new_commits[-1]
LatestSha_oldest(new_commits) == new_commits[1].sha

LatestSha(new_commits) == new_commits[Len(new_commits)].sha

\* commit_messages of line 173
CommitMessages(new_commits) == [k \in 1..Len(new_commits) |-> new_commits[k].message]

\* The body of the try of lines 165-181 for one repository, as a record of
\* what it computed: fetch is the outcome of the GET of get_new_commits,
\* resp the outcome of the POST of summarize_commits_with_llm.
Visit(repo, last_commit_sha, n, fetch, key, resp) ==
    LET page == IF fetch = "ok" THEN RequestedPage(n, last_commit_sha) ELSE <<>>
        new_commits == IF fetch = "ok" THEN get_new_commits(page, last_commit_sha) ELSE <<>>
        called == new_commits # <<>>
        result == IF called THEN summarize_commits_with_llm(key, resp) ELSE NotCalled
        exc == IF fetch # "ok" THEN fetch ELSE result.exc
        completed == called /\ exc = "none"
    IN  [repo |-> repo,
         last_commit_sha |-> last_commit_sha,
         upstream |-> n,
         fetch |-> fetch,
         page |-> page,
         new_commits |-> new_commits,
         commit_messages |-> IF called THEN CommitMessages(new_commits) ELSE <<>>,
         resp |-> resp,
         result |-> result,
         exc |-> exc,
         completed |-> completed,
         watermark |-> IF completed THEN LatestSha(new_commits) ELSE last_commit_sha]

\* Whether the iteration reaches the POST of line 115
Requests(repo, last_commit_sha, n, fetch, key) ==
    /\ Visit(repo, last_commit_sha, n, fetch, key, NoResp).new_commits # <<>>
    /\ SendsRequest(key)

\* The f-string of line 177: repository, timestamp and summary
Section(v, timestamp) == [repo |-> v.repo, timestamp |-> timestamp, summary |-> v.result]

\* Line 177 with the new section put in front
Accumulate_front(summaries, section) == <<section>> \o summaries

\* all_summaries.append(...) of line 177
Accumulate(summaries, section) == Append(summaries, section)

\* The title and body of lines 189-191
Issue(summaries, timestamp, outcome) ==
    [title |-> timestamp.date, body |-> summaries, outcome |-> outcome]

\* Lines 188-195 without the test of line 188
HasSummaries_always(summaries) == TRUE

\* Line 188 as `if len(all_summaries) > 1:`
HasSummaries_several(summaries) == Len(summaries) > 1

\* if all_summaries: (line 188)
HasSummaries(summaries) == summaries # <<>>

\* ------------------------------------------------------------- the record of a run
\* No run before this one saved the watermark file
NoPreviousRun == [saved |-> FALSE, seen |-> [r \in Repos |-> 0], settled |-> FALSE]

\* The loop iterations of this run for repository r
VisitsOf(r) == {k \in 1..Len(log) : log[k].repo = r}
LastVisitOf(r) == log[CHOOSE k \in VisitsOf(r) : \A j \in VisitsOf(r) : j <= k]
FirstVisitOf(r) == log[CHOOSE k \in VisitsOf(r) : \A j \in VisitsOf(r) : k <= j]

\* The commits of r whose messages this run handed to summarization (line 174)
RunInputs(r) == UNION {Shas(log[k].new_commits) : k \in VisitsOf(r)}

\* The iteration fetched the page and either found nothing new or reached
\* line 180
Settled(v) == v.fetch = "ok" /\ (v.new_commits = <<>> \/ v.completed)

\* The first watermark known for r: the one its first iteration loaded or,
\* without one, the one a first-run iteration set in a run that saved
SeedNow(r) ==
    IF seed[r] # NoSha \/ VisitsOf(r) = {} THEN seed[r]
    ELSE IF FirstVisitOf(r).last_commit_sha # NoSha THEN FirstVisitOf(r).last_commit_sha
    ELSE IF saves > 0 /\ FirstVisitOf(r).completed THEN FirstVisitOf(r).watermark
    ELSE NoSha

\* No fetch, summarization or issue-creation step of this run failed, and
\* fewer commits than one page arrived since the watermark of each iteration.
RunClean ==
    /\ \A k \in 1..Len(log) :
           /\ log[k].fetch = "ok"
           /\ log[k].result.kind \in {"not_called", "summary"}
           /\ log[k].last_commit_sha # NoSha =>
                  log[k].upstream - log[k].last_commit_sha < PageSize
    /\ \A k \in 1..Len(issues) : issues[k].outcome = "created"

\* ------------------------------------------------------------- actions
Init ==
    /\ ARK_API_KEY \in ArkKeys
    /\ GITHUB_REPOSITORY \in {"None", "me/tracker"}
    /\ config \in SeqsUpTo(Repos, Cardinality(Repos))
    /\ upstream \in [Repos -> 1..InitCommits]
    /\ file_status \in FileStatuses
    /\ last_commits_file \in
           CASE file_status = "json" ->
                    {f \in [Repos -> 0..InitCommits] : \A r \in Repos : f[r] <= upstream[r]}
             [] file_status = "absent" -> {EmptyMapping}
             [] file_status = "unparsable" -> {[r \in Repos |-> upstream[r]]}
    /\ pc = "main"
    /\ run = 1
    /\ repositories = <<>>
    /\ last_commits = EmptyMapping
    /\ i = 1
    /\ all_summaries = <<>>
    /\ log = <<>>
    /\ ark_requests = 0
    /\ issues = <<>>
    /\ saves = 0
    /\ loads = 0
    /\ summarize_calls = 0
    /\ github_output = <<>>
    /\ summarized = [r \in Repos |-> {}]
    /\ seed = EmptyMapping
    /\ prev = NoPreviousRun

\* The checks of lines 151-157 without the one of lines 155-157
ExitsEarly_unless_empty(repo_to_post_issue, configured) == repo_to_post_issue = "None"

\* The early returns of lines 151-157
ExitsEarly(repo_to_post_issue, configured) ==
    repo_to_post_issue = "None" \/ configured = <<>>

\* Lines 143-159: load the configuration and the watermarks, return early
\* without a reporting repository or without configured repositories.  A for
\* loop over an empty list falls through to line 188.
MainStart ==
    /\ pc = "main"
    /\ repositories' = config
    /\ last_commits' = load_json(file_status, last_commits_file)
    /\ i' = 1
    /\ all_summaries' = <<>>
    /\ loads' = loads + 1
    /\ pc' = IF LoadRaises(file_status) THEN "crashed"
             ELSE IF ExitsEarly(GITHUB_REPOSITORY, config) THEN "done"
             ELSE IF config = <<>> THEN "report" ELSE "loop"
    /\ UNCHANGED <<env, upstream, last_commits_file, file_status, run, history, across_runs>>

\* Lines 161-186: one iteration of the loop over the repositories.
CheckRepo ==
    /\ pc = "loop"
    /\ LET repo == repositories[i]
           last_commit_sha == last_commits[repo]
       IN  \E fetch \in FetchOutcomes :
           \E resp \in (IF Requests(repo, last_commit_sha, upstream[repo], fetch, ARK_API_KEY)
                        THEN ArkResponses ELSE {NoResp}) :
               LET v == Visit(repo, last_commit_sha, upstream[repo], fetch, ARK_API_KEY, resp)
               IN  /\ log' = Append(log, v)
                   /\ ark_requests' = IF resp # NoResp THEN ark_requests + 1 ELSE ark_requests
                   /\ summarize_calls' = IF v.new_commits # <<>> THEN summarize_calls + 1
                                         ELSE summarize_calls
                   /\ all_summaries' = IF v.completed
                                       THEN Accumulate(all_summaries, Section(v, get_beijing_time))
                                       ELSE all_summaries
                   /\ last_commits' = [last_commits EXCEPT ![repo] = v.watermark]
                   /\ pc' = IF ~Caught(v.exc) /\ v.exc # "none" THEN "crashed"
                            ELSE IF i = Len(repositories) THEN "report" ELSE "loop"
    /\ i' = i + 1
    /\ UNCHANGED <<env, upstream, last_commits_file, file_status, run, repositories, issues, saves,
                   loads, github_output, across_runs>>

\* Lines 188-199: create the issue and save the watermarks when a summary
\* was collected.  create_github_issue catches the failure of its POST.
Report ==
    /\ pc = "report"
    /\ \E outcome \in (IF HasSummaries(all_summaries) THEN {"created", "RequestException"}
                       ELSE {"none"}) :
          /\ issues' = IF HasSummaries(all_summaries)
                       THEN Append(issues, Issue(all_summaries, get_beijing_time, outcome))
                       ELSE issues
    /\ last_commits_file' = IF HasSummaries(all_summaries) THEN last_commits
                            ELSE last_commits_file
    /\ file_status' = IF HasSummaries(all_summaries) THEN "json" ELSE file_status
    /\ saves' = IF HasSummaries(all_summaries) THEN saves + 1 ELSE saves
    /\ pc' = "done"
    /\ UNCHANGED <<env, upstream, run, locals, log, ark_requests, loads, summarize_calls,
                   github_output, across_runs>>

\* The process of a run ends and the scheduler starts the next one.
Restart ==
    /\ pc = "done"
    /\ run < MaxRuns
    /\ run' = run + 1
    /\ pc' = "main"
    /\ repositories' = <<>>
    /\ last_commits' = EmptyMapping
    /\ i' = 1
    /\ all_summaries' = <<>>
    /\ log' = <<>>
    /\ ark_requests' = 0
    /\ issues' = <<>>
    /\ saves' = 0
    /\ loads' = 0
    /\ summarize_calls' = 0
    /\ github_output' = <<>>
    /\ UNCHANGED <<env, upstream, last_commits_file, file_status>>

\* The next run, nothing of the finished run kept but the watermark file.
NextRun == Restart /\ UNCHANGED across_runs

\* The next run, with the commits the finished run handed to summarization
\* kept.
NextRunSummarized ==
    /\ Restart
    /\ summarized' = [r \in Repos |-> summarized[r] \cup RunInputs(r)]
    /\ UNCHANGED <<seed, prev>>

\* The next run, with what a finished run that saved the watermark file
\* saw upstream, and whether it settled every repository, kept.
NextRunAfter ==
    /\ Restart
    /\ prev' = IF saves = 0 THEN NoPreviousRun
               ELSE [saved |-> TRUE,
                     seen |-> [r \in Repos |-> IF VisitsOf(r) = {} THEN 0
                                               ELSE LastVisitOf(r).upstream],
                     settled |-> \A k \in 1..Len(log) : Settled(log[k])]
    /\ UNCHANGED <<summarized, seed>>

\* The next run after a run in which no step failed and no page was
\* overrun, with its summarized commits and the seeds kept.
NextRunClean ==
    /\ RunClean
    /\ Restart
    /\ summarized' = [r \in Repos |-> summarized[r] \cup RunInputs(r)]
    /\ seed' = [r \in Repos |-> SeedNow(r)]
    /\ UNCHANGED prev

\* A commit is pushed to an upstream repository.
Push ==
    \E r \in Repos :
        /\ pc \in {"main", "loop"}
        /\ upstream[r] < MaxCommits
        /\ upstream' = [upstream EXCEPT ![r] = @ + 1]
        /\ UNCHANGED <<env, last_commits_file, file_status, pc, run, locals, history, loads,
                       across_runs>>

Next == MainStart \/ CheckRepo \/ Report \/ NextRun \/ Push

Spec == Init /\ [][Next]_vars

\* Consecutive runs with a summarization credential, a reporting repository
\* and a readable watermark file.  The repositories are interchangeable, so
\* the configured list starts with one of them.
FirstRepo == CHOOSE r \in Repos : TRUE

InitRuns ==
    /\ Init
    /\ (config # <<>> => config[1] = FirstRepo)
    /\ ARK_API_KEY = "sk"
    /\ GITHUB_REPOSITORY # "None"
    /\ file_status = "json"

\* Runs that keep the commits earlier runs summarized
SpecSummarized == InitRuns /\ [][MainStart \/ CheckRepo \/ Report \/ NextRunSummarized \/ Push]_vars

\* Runs that keep what the previous run saw and did
SpecAfter == InitRuns /\ [][MainStart \/ CheckRepo \/ Report \/ NextRunAfter \/ Push]_vars

\* Runs that follow runs without a failed step or an overrun page
SpecClean == InitRuns /\ [][MainStart \/ CheckRepo \/ Report \/ NextRunClean \/ Push]_vars

\* ------------------------------------------------------------- properties
Visits == {log[k] : k \in 1..Len(log)}

\* The visits of this run that got a page from the listing endpoint
Fetched == {v \in Visits : v.fetch = "ok"}

\* The visits of this run in which detection returned at least one commit
WithNewCommits == {v \in Visits : v.new_commits # <<>>}

PositionsOf(sha, page) == {p \in 1..Len(page) : page[p].sha = sha}

MaxOf(S) == CHOOSE x \in S : \A y \in S : y <= x

\* The last visit of repository r in this run
LastVisit(r) == log[MaxOf({k \in 1..Len(log) : log[k].repo = r})]

\* The first visit of repository r in this run
FirstVisit(r) == log[CHOOSE k \in 1..Len(log) : log[k].repo = r /\ \A j \in 1..(k - 1) : log[j].repo # r]

\* The run got past the configuration checks of lines 151-157
Started == GITHUB_REPOSITORY # "None" /\ config # <<>>

\* C1: with a stored watermark w that the fetched newest-first page contains,
\* get_new_commits returns exactly the commits positioned before w in the
\* page, oldest first, and never w itself.
C1_IncrementalReturnsNewerOldestFirst ==
    \A v \in Fetched :
        (v.last_commit_sha # NoSha /\ PositionsOf(v.last_commit_sha, v.page) # {}) =>
            LET p == CHOOSE q \in PositionsOf(v.last_commit_sha, v.page) : TRUE
            IN  /\ v.new_commits = [j \in 1..(p - 1) |-> v.page[p - j]]
                /\ \A j \in 1..Len(v.new_commits) : v.new_commits[j].sha > v.last_commit_sha
                /\ \A j \in 1..(Len(v.new_commits) - 1) :
                       v.new_commits[j].sha < v.new_commits[j + 1].sha

\* C1 witness: a watermark inside the page with two newer commits before it.
C1_Witness ==
    \E v \in Fetched :
        /\ v.last_commit_sha # NoSha
        /\ PositionsOf(v.last_commit_sha, v.page) = {3}
        /\ Len(v.new_commits) = 2

\* C2: without a stored watermark detection returns exactly one commit, the
\* most recent one upstream, however many commits exist upstream.
C2_FirstRunReturnsNewestOnly ==
    \A v \in Fetched :
        v.last_commit_sha = NoSha => v.new_commits = <<Commit(v.upstream)>>

\* C2 witness: a first-run detection against an upstream of three commits.
C2_Witness ==
    \E v \in Fetched :
        v.last_commit_sha = NoSha /\ v.upstream = 3 /\ v.new_commits = <<Commit(3)>>

\* The watermark the persisted state holds for repository r: what a run
\* starting now would load
Stored(r) == load_json(file_status, last_commits_file)[r]

\* The newest commit among those a detection returned
NewestOf(new_commits) == MaxOf(Shas(new_commits))

\* What the next run would detect for repository r if it started now
NextDetection(r) ==
    get_new_commits(RequestedPage(upstream[r], Stored(r)), Stored(r))

\* C3: after a run in which detection returned at least one new commit for a
\* repository, the persisted watermark of that repository is the identifier
\* of the newest commit detection returned for it in that run.
C3_WatermarkStoredAfterDetection ==
    pc = "done" =>
        \A v \in WithNewCommits :
            v = LastVisit(v.repo) => Stored(v.repo) = NewestOf(v.new_commits)

\* C4: when the fetched page does not contain the stored watermark, detection
\* returns all commits of the page oldest first, the run persists the page's
\* newest commit as the watermark, and a following run against the unchanged
\* upstream detects nothing.
C4_ScrolledOffWatermarkAdvances ==
    \A v \in Fetched :
        (v.last_commit_sha # NoSha /\ PositionsOf(v.last_commit_sha, v.page) = {}) =>
            /\ v.new_commits = [j \in 1..Len(v.page) |-> v.page[Len(v.page) + 1 - j]]
            /\ (pc = "done" /\ v = LastVisit(v.repo)) =>
                   /\ Stored(v.repo) = v.page[1].sha
                   /\ upstream[v.repo] = v.upstream => NextDetection(v.repo) = <<>>

\* C5: no error raised while processing one repository aborts the run: the
\* repositories are visited once each in configuration order, whatever the
\* outcomes, and the run reaches its end (it never crashes, and until it is
\* done its next step is enabled: the loop index stays inside the list).
C5_NoRepositoryErrorAbortsRun ==
    /\ pc # "crashed"
    /\ [k \in 1..Len(log) |-> log[k].repo] = SubSeq(config, 1, Len(log))
    /\ pc = "loop" => i = Len(log) + 1 /\ i <= Len(config)
    /\ (pc = "report" \/ (pc = "done" /\ Started)) => Len(log) = Len(config)
    /\ pc \in {"main", "loop", "report", "done"}
    /\ pc = "loop" => i \in 1..Len(repositories)

\* C5 witness: a finished run whose first repository failed at the fetch with
\* a non-HTTP error and whose second failed inside summarization.
C5_Witness ==
    /\ pc = "done"
    /\ Len(log) = 2
    /\ log[1].exc = "ConnectionError"
    /\ log[2].exc = "AttributeError"

\* C6: a failed commit fetch leaves the repository's watermark as it was, in
\* memory and in the state the run persists, while the other repositories
\* are still processed and their watermark updates are persisted.
C6_FetchFailureKeepsWatermark ==
    /\ \A v \in Visits : v.fetch # "ok" => v.watermark = v.last_commit_sha
    /\ (pc \in {"loop", "report", "done"} /\ Len(log) > 0) =>
           \A v \in Visits : v = LastVisit(v.repo) => last_commits[v.repo] = v.watermark
    /\ (pc = "done" /\ Started) =>
           /\ Len(log) = Len(config)
           /\ \A v \in Visits :
                  (\A u \in Visits : u.repo = v.repo => u.fetch # "ok") =>
                      Stored(v.repo) = FirstVisit(v.repo).last_commit_sha
           /\ \A v \in Visits :
                  (v.completed /\ v = LastVisit(v.repo)) =>
                      Stored(v.repo) = NewestOf(v.new_commits)

\* C6 witness: a finished run whose first repository had commits pending and
\* failed at the fetch, and whose second repository got a new watermark.
C6_Witness ==
    /\ pc = "done"
    /\ Len(log) = 2
    /\ log[1].repo # log[2].repo
    /\ log[1].fetch = "HTTPError"
    /\ log[1].last_commit_sha # NoSha
    /\ log[1].last_commit_sha < log[1].upstream
    /\ log[2].completed
    /\ Stored(log[2].repo) = log[2].upstream
    /\ Stored(log[1].repo) = log[1].last_commit_sha

\* A response body carries the expected text payload: an output entry of type
\* message and role assistant with a content item of type output_text.
HasTextPayload(resp) ==
    \E a \in 1..Len(resp.output) :
        /\ resp.output[a].type = "message"
        /\ resp.output[a].role = "assistant"
        /\ \E b \in 1..Len(resp.output[a].content) :
               resp.output[a].content[b].type = "output_text"

\* The section of visit v is part of the run's report
Reported(v) ==
    \E k \in 1..Len(issues) : \E j \in 1..Len(issues[k].body) :
        issues[k].body[j].repo = v.repo /\ issues[k].body[j].summary = v.result

\* C7: a response-shape error of the summarization service for a repository
\* with new commits becomes a fallback summary and the repository completes:
\* its watermark advances to the newest detected commit and the fallback text
\* is in the run's report.
C7_ShapeErrorCompletesRepository ==
    \A v \in WithNewCommits :
        (v.resp.status = "ok" /\ ~HasTextPayload(v.resp)) =>
            /\ v.result.exc = "none"
            /\ v.result.kind = "extract_fallback"
            /\ v.watermark = NewestOf(v.new_commits)
            /\ pc = "done" => Reported(v)

\* C8: for every response without the expected text payload, and for a
\* transport failure, summarize_commits_with_llm returns a fallback string
\* and never raises.
C8_SummarizeNeverRaises ==
    \A v \in Visits :
        (v.resp.status = "RequestException" \/ (v.resp.status = "ok" /\ ~HasTextPayload(v.resp))) =>
            /\ v.result.exc = "none"
            /\ v.result.kind \in {"extract_fallback", "transport_fallback"}

\* C9: with the summarization credential missing, summarization returns the
\* fixed placeholder and sends no request; the run does not crash and the
\* placeholder is the repository's summary.
C9_MissingKeyPlaceholder ==
    ARK_API_KEY = "None" =>
        /\ ark_requests = 0
        /\ pc # "crashed"
        /\ \A v \in WithNewCommits :
               /\ v.result = [exc |-> "none", kind |-> "key_missing", text |-> <<>>]
               /\ v.watermark = NewestOf(v.new_commits)
               /\ pc = "done" => Reported(v)

\* C9 witness: a finished run without the credential that reported the
\* placeholder for a repository with new commits.
C9_Witness ==
    /\ ARK_API_KEY = "None"
    /\ pc = "done"
    /\ \E v \in WithNewCommits : v.result.kind = "key_missing" /\ Reported(v)

\* C10: a run makes exactly one issue-creation request when at least one
\* repository had new commits, and makes none and saves nothing when no
\* repository had new commits.
C10_OneIssueIffNewCommits ==
    pc = "done" =>
        /\ WithNewCommits # {} => Len(issues) = 1
        /\ WithNewCommits = {} => issues = <<>> /\ saves = 0

\* The visits of this run that produced a summary, in processing order
IsCompleted(v) == v.completed
CompletedVisits == SelectSeq(log, IsCompleted)

\* C11: the body of the issue a run creates is, in processing order, one
\* section per repository that had new commits and whose processing did not
\* fail; every section carries the repository identifier, a timestamp and
\* the summary text.
C11_IssueBodyIsSectionsInOrder ==
    (pc = "done" /\ issues # <<>>) =>
        LET body == issues[1].body
        IN  /\ Len(body) = Len(CompletedVisits)
            /\ \A j \in 1..Len(body) :
                   /\ body[j].repo = CompletedVisits[j].repo
                   /\ body[j].summary = CompletedVisits[j].result
                   /\ body[j].timestamp.date = run
                   /\ \E k \in 1..Len(log) :
                          log[k] = CompletedVisits[j] /\ body[j].timestamp.time = k
            /\ \A j \in 1..(Len(body) - 1) :
                   body[j].timestamp.time < body[j + 1].timestamp.time

\* C11 witness: an issue with the sections of two different repositories.
C11_Witness ==
    /\ pc = "done"
    /\ Len(issues) = 1
    /\ Len(issues[1].body) = 2
    /\ issues[1].body[1].repo # issues[1].body[2].repo
    /\ issues[1].body[1].summary.kind = "summary"

\* C12: in every run the watermark state is read once, at the start, and
\* written at most once, only at the end after all repositories were
\* processed, and it is written exactly when at least one repository
\* produced a result (a summary or a synthesized error summary).
C12_LoadOnceSaveOnceAtEnd ==
    /\ loads = (IF pc = "main" THEN 0 ELSE 1)
    /\ saves \in {0, 1}
    /\ pc \in {"main", "loop", "report"} => saves = 0
    /\ (saves = 1 /\ Started) => Len(log) = Len(config)
    /\ pc = "done" => (saves = 1 <=> \E v \in Visits : v.result.kind \in
                          {"summary", "key_missing", "extract_fallback", "transport_fallback"})

\* C12 witness: a finished run that saved after only a synthesized error
\* summary was produced, with another repository failing.
C12_Witness ==
    /\ pc = "done"
    /\ saves = 1
    /\ loads = 1
    /\ Len(log) = 2
    /\ log[1].result.kind = "transport_fallback"
    /\ log[2].exc = "HTTPError"

\* C13: when a repository produced a result the run writes a "changes made"
\* key-value line to the output channel before it ends, and it writes none
\* when no repository produced a result.
C13_ChangesMadeSignal ==
    pc = "done" =>
        /\ (\E v \in Visits : v.completed) => github_output # <<>>
        /\ (\A v \in Visits : ~v.completed) => github_output = <<>>

\* The messages of the commits with the shas of S, oldest first
RECURSIVE MessagesOf(_)
MessagesOf(S) ==
    IF S = {} THEN <<>>
    ELSE LET oldest == CHOOSE x \in S : \A y \in S : x <= y
         IN  <<MessageTable[oldest]>> \o MessagesOf(S \ {oldest})

\* C14: for every repository with new commits summarization is invoked once,
\* with exactly the messages of the detected commits, one per commit, oldest
\* first; on a first run with the message of the newest commit alone, whose
\* identifier becomes the watermark.
C14_SummarizedOncePerRepository ==
    /\ summarize_calls = Cardinality({k \in 1..Len(log) : log[k].new_commits # <<>>})
    /\ \A v \in WithNewCommits :
           /\ v.commit_messages = MessagesOf(Shas(v.new_commits))
           /\ Len(v.commit_messages) = Len(v.new_commits)
           /\ v.last_commit_sha = NoSha =>
                  /\ v.commit_messages = <<MessageTable[v.upstream]>>
                  /\ v.watermark = v.upstream
                  /\ (pc = "done" /\ v = LastVisit(v.repo)) =>
                         Stored(v.repo) = v.upstream

\* C15: a failed issue-creation request is caught, the run finishes, and no
\* watermark update is persisted for the repositories whose summaries were in
\* the issue that was not created.
C15_FailedIssueKeepsWatermarks ==
    (pc = "done" /\ issues # <<>> /\ issues[1].outcome = "RequestException") =>
        \A j \in 1..Len(issues[1].body) :
            LET r == issues[1].body[j].repo
            IN  Stored(r) = FirstVisit(r).last_commit_sha

C17_EmptyListExitsEarly ==
    config = <<>> =>
        /\ pc \in {"main", "done"}
        /\ log = <<>>
        /\ summarize_calls = 0
        /\ ark_requests = 0
        /\ issues = <<>>
        /\ saves = 0
        /\ github_output = <<>>

\* C17 witness: a finished run without configured repositories, with a
\* reporting repository set and commits pending upstream.
C17_Witness ==
    /\ config = <<>>
    /\ pc = "done"
    /\ loads = 1
    /\ GITHUB_REPOSITORY # "None"
    /\ \E r \in Repos : Stored(r) # NoSha /\ Stored(r) < upstream[r]

\* C18: across completed runs over an append-only upstream, a run with a
\* stored watermark summarizes only commits newer than that watermark, and no
\* commit is in the summarization input of two different runs.
C18_NoCommitSummarizedTwice ==
    /\ \A v \in WithNewCommits :
           v.last_commit_sha # NoSha =>
               \A sha \in Shas(v.new_commits) : sha > v.last_commit_sha
    /\ \A r \in Repos : RunInputs(r) \cap summarized[r] = {}

\* The run follows a run that saved the watermark file, and every repository
\* it has checked so far holds upstream what that run saw.
SameUpstreamAsSaved ==
    /\ prev.saved
    /\ Visits # {}
    /\ \A v \in Visits : v.upstream = prev.seen[v.repo]

\* Nothing detected, no summarization, no issue, no write of the file
Idle ==
    /\ \A v \in Visits : v.new_commits = <<>>
    /\ summarize_calls = 0
    /\ ark_requests = 0
    /\ all_summaries = <<>>
    /\ issues = <<>>
    /\ saves = 0

\* C19 as stated: a run that follows a run which completed and saved its
\* watermarks, against the same upstream state, detects no new commits,
\* invokes no summarization, creates no issue and does not write the file.
C19_RerunOnUnchangedUpstreamIsIdle == SameUpstreamAsSaved => Idle

\* C19 amended: the same, for a saving run in which every fetch succeeded and
\* every repository with new commits had its watermark advanced.
C19_RerunAfterSettledRunIsIdle == (SameUpstreamAsSaved /\ prev.settled) => Idle

\* C19 witness: the second run has finished after checking two repositories
\* whose upstream is what the first, settled and saving, run saw.
C19_Witness ==
    /\ run = 2
    /\ pc = "done"
    /\ SameUpstreamAsSaved
    /\ prev.settled
    /\ Len(log) = 2
    /\ log[1].repo # log[2].repo
    /\ \A v \in Visits : v.fetch = "ok" /\ v.last_commit_sha = v.upstream /\ v.upstream >= 2

\* The section of iteration k of this run is in the body of a created issue
InCreatedIssue(k) ==
    \E n \in 1..Len(issues) :
        /\ issues[n].outcome = "created"
        /\ \E j \in 1..Len(issues[n].body) :
               /\ issues[n].body[j].repo = log[k].repo
               /\ issues[n].body[j].timestamp.time = k
               /\ issues[n].body[j].summary = log[k].result

\* C20: provided no fetch, summarization or issue-creation step fails and
\* fewer commits than one page arrive between consecutive runs, at the end of
\* a run every commit upstream after the seed of a checked repository has
\* been in the summarization input of this or an earlier run, and this run's
\* inputs are in the issue it created.
C20_NoCommitAfterSeedSkipped ==
    (pc = "done" /\ RunClean) =>
        \A r \in Repos :
            VisitsOf(r) # {} =>
                /\ SeedNow(r) # NoSha
                /\ \A sha \in (SeedNow(r) + 1)..LastVisitOf(r).upstream :
                       sha \in summarized[r] \cup RunInputs(r)
                /\ \A k \in VisitsOf(r) :
                       /\ log[k].new_commits # <<>> => InCreatedIssue(k)
                       /\ log[k].commit_messages = MessagesOf(Shas(log[k].new_commits))

\* C20 witness: the second run has finished; for one repository two commits
\* arrived after the seed, one summarized by the first run and one by the
\* second; for the other, two commits arrived since the first run.
C20_Witness ==
    /\ run = 2
    /\ pc = "done"
    /\ RunClean
    /\ Len(log) = 2
    /\ \E r \in Repos :
           /\ seed[r] # NoSha
           /\ summarized[r] = {seed[r] + 1}
           /\ RunInputs(r) = {seed[r] + 2}
    /\ \E r \in Repos : Cardinality(RunInputs(r)) = 2 /\ summarized[r] # {}

====
